---- MODULE Spec2Model ----
(***************************************************************************)
(* convert2webp: a wrapper that locates the platform's WebP binaries, runs *)
(* them with execFile and, for in-memory conversions, bridges a buffer to  *)
(* the file-based tool through a pair of temporary files.                  *)
(*                                                                         *)
(* A call of an exported function occupies one slot of `calls`.  Each     *)
(* await of the source is one step: the synchronous code up to the await   *)
(* belongs to the action that precedes it, the completion of the awaited   *)
(* operation (file system, child process) to the action that follows.      *)
(***************************************************************************)
EXTENDS Integers, Sequences, FiniteSets, TLC

VARIABLES
    platformKey,  \* `${process.platform}-${process.arch}` of this process
    dirs,         \* directories that exist on disk
    files,        \* files that exist on disk: path -> bytes
    uuidCount,    \* identifiers handed out by uuid() so far
    calls         \* the calls of the exported functions, one record per slot

vars == <<platformKey, dirs, files, uuidCount, calls>>

----------------------------------------------------------------------------
(* Bounds *)

MaxCalls == 2    \* calls issued (and possibly in flight together) in a run
MaxStrLen == 2   \* characters of a base64 argument
MaxOptLen == 2   \* characters of an options string

Calls == 1..MaxCalls

----------------------------------------------------------------------------
(* Values *)

Undefined == "undefined"

\* The base64 alphabet as character codes: 0..63 are the sextets, Pad is '=',
\* Junk is a character outside the alphabet such as '!'.
Pad == 64
Junk == 65
B64Chars == {0, 63, Pad, Junk}

RECURSIVE SeqsUpTo(_, _)
SeqsUpTo(S, n) ==
    IF n = 0 THEN {<<>>}
    ELSE LET shorter == SeqsUpTo(S, n - 1)
         IN shorter \cup {Append(s, x) : s \in {t \in shorter : Len(t) = n - 1}, x \in S}

Base64Strings == SeqsUpTo(B64Chars, MaxStrLen)
OptionChars == {" ", "q"}
Options == SeqsUpTo(OptionChars, MaxOptLen)

ImageTypes == {"png", "webp"}
ExtraPaths == {Undefined, "", "/custom"}
Buffers == {<<>>, <<255>>}
PlatformKeys == {"linux-x64", "linux-arm64"}
ToolOutputs == {<<7>>}

----------------------------------------------------------------------------
(* Pure helpers of the source *)

\* cwebp.js: the platform table of the cwebp binary.
platformConfig ==
    [k \in {"darwin-x64", "darwin-arm64", "linux-x64", "win32-x64"} |->
        CASE k = "darwin-x64" -> <<"libwebp_osx", "bin", "cwebp">>
          [] k = "darwin-arm64" -> <<"libwebp_osx", "bin", "cwebp">>
          [] k = "linux-x64" -> <<"libwebp_linux", "bin", "cwebp">>
          [] k = "win32-x64" -> <<"libwebp_win64", "bin", "cwebp.exe">>]

Threw(e) == [threw |-> TRUE, error |-> e, value |-> <<>>]
Returned(v) == [threw |-> FALSE, error |-> "", value |-> v]

\* getCwebpPath(): the binary's path, or a throw for a key the table lacks.
getCwebpPath(key) ==
    IF key \notin DOMAIN platformConfig
    THEN Threw("UnsupportedPlatform")
    ELSE Returned(<<"..", "bin">> \o platformConfig[key])

\* String.prototype.split(' '): the pieces between single spaces, empty
\* pieces included ("".split(' ') is [""]).
RECURSIVE Split(_)
Split(s) ==
    IF \A i \in 1..Len(s) : s[i] # " " THEN <<s>>
    ELSE LET i == CHOOSE j \in 1..Len(s) :
                      s[j] = " " /\ \A k \in 1..(j - 1) : s[k] # " "
         IN <<SubSeq(s, 1, i - 1)>> \o Split(SubSeq(s, i + 1, Len(s)))

Arg(kind, v) == [kind |-> kind, v |-> v]
RECURSIVE OptionArgs(_)
OptionArgs(tokens) ==
    IF tokens = <<>> THEN <<>>
    ELSE <<Arg("option", Head(tokens))>> \o OptionArgs(Tail(tokens))

\* cwebp(): [...option.split(' '), input_image, '-o', output_image, logging]
cwebpArgs(input_image, output_image, option, logging) ==
    OptionArgs(Split(option)) \o
    <<Arg("path", input_image), Arg("flag", "-o"), Arg("path", output_image),
      Arg("flag", logging)>>

\* Buffer.from(str, 'base64'): characters outside the alphabet are skipped,
\* decoding stops at the first '=', a trailing group of 2 or 3 sextets gives
\* 1 or 2 bytes and a lone trailing sextet gives none.  It never throws.
RECURSIVE Sextets(_)
Sextets(s) ==
    IF s = <<>> \/ Head(s) = Pad THEN <<>>
    ELSE IF Head(s) < 64 THEN <<Head(s)>> \o Sextets(Tail(s))
    ELSE Sextets(Tail(s))

RECURSIVE DecodeSextets(_)
DecodeSextets(q) ==
    IF Len(q) < 2 THEN <<>>
    ELSE LET b1 == q[1] * 4 + q[2] \div 16
         IN IF Len(q) = 2 THEN <<b1>>
            ELSE LET b2 == (q[2] % 16) * 16 + q[3] \div 4
                 IN IF Len(q) = 3 THEN <<b1, b2>>
                    ELSE <<b1, b2, (q[3] % 4) * 64 + q[4]>>
                         \o DecodeSextets(SubSeq(q, 5, Len(q)))

BufferFromBase64(str) == DecodeSextets(Sextets(str))

\* buf.toString('base64'): three bytes to four sextets, '=' padded.
RECURSIVE ToBase64(_)
ToBase64(b) ==
    IF b = <<>> THEN <<>>
    ELSE LET s1 == b[1] \div 4
         IN IF Len(b) = 1 THEN <<s1, (b[1] % 4) * 16, Pad, Pad>>
            ELSE LET s2 == (b[1] % 4) * 16 + b[2] \div 16
                 IN IF Len(b) = 2 THEN <<s1, s2, (b[2] % 16) * 4, Pad>>
                    ELSE <<s1, s2, (b[2] % 16) * 4 + b[3] \div 64, b[3] % 64>>
                         \o ToBase64(SubSeq(b, 4, Len(b)))

\* path.join(tempDir, `${filename}.${ext}`)
TempFile(tempDir, filename, ext) == [dir |-> tempDir, name |-> <<filename, ext>>]

\* A generator that hands every call the same name.
uuidFixed(issued) == 1

\* uuid(): an identifier no earlier call of this process received.
uuid(issued) == issued + 1

\* temp_path.js: customPath || path.join(os.tmpdir(), 'webp-converter-js')
DefaultTempPath == "/tmp/webp-converter-js"
targetPath(customPath) ==
    IF customPath # Undefined /\ customPath # "" THEN customPath ELSE DefaultTempPath

\* mkdirSync without {recursive: true}: EEXIST on a directory that exists.
mkdirSyncNotRecursive(exists, allowed) == ~exists /\ allowed

\* fs.mkdirSync(p, {recursive: true}): succeeds on a directory that exists,
\* creates it when the file system allows, throws otherwise.
mkdirSync(exists, allowed) == exists \/ allowed

\* getTempPath with the catch block logging the error and not re-throwing it.
getTempPathSwallowed(customPath, exists, allowed) == Returned(targetPath(customPath))

\* getTempPath(): the target path, or the mkdir error re-thrown.
getTempPath(customPath, exists, allowed) ==
    IF mkdirSync(exists, allowed)
    THEN Returned(targetPath(customPath))
    ELSE Threw("DirectoryCreationError")

\* webpmux.js: the platform table of the webpmux binary.
webpmuxConfig ==
    [k \in {"darwin-x64", "darwin-arm64", "linux-x64", "win32-x64"} |->
        CASE k = "darwin-x64" -> <<"libwebp_osx", "bin", "webpmux">>
          [] k = "darwin-arm64" -> <<"libwebp_osx", "bin", "webpmux">>
          [] k = "linux-x64" -> <<"libwebp_linux", "bin", "webpmux">>
          [] k = "win32-x64" -> <<"libwebp_win64", "bin", "webpmux.exe">>]

getWebpmuxPath(key) ==
    IF key \notin DOMAIN webpmuxConfig
    THEN Threw("UnsupportedPlatform")
    ELSE Returned(<<"..", "bin">> \o webpmuxConfig[key])

\* dwebp.js and gwebp.js: the locators of the other two binaries.
getDwebpPath(key) ==
    IF key \notin DOMAIN platformConfig
    THEN Threw("UnsupportedPlatform")
    ELSE Returned(<<"..", "bin", platformConfig[key][1], "bin", "dwebp">>)

getGwebpPath(key) ==
    IF key \notin DOMAIN platformConfig
    THEN Threw("UnsupportedPlatform")
    ELSE Returned(<<"..", "bin", platformConfig[key][1], "bin", "gif2webp">>)

\* dwebp(): [input_image, ...option.split(' '), '-o', output_image, logging]
dwebpArgs(input_image, output_image, option, logging) ==
    <<Arg("path", input_image)>> \o OptionArgs(Split(option)) \o
    <<Arg("flag", "-o"), Arg("path", output_image), Arg("flag", logging)>>

\* webpmux_strip(): ['-strip', metadata_type, input_image, '-o', output_image, logging]
webpmuxStripArgs(input_image, output_image, metadata_type, logging) ==
    <<Arg("flag", "-strip"), Arg("flag", metadata_type), Arg("path", input_image),
      Arg("flag", "-o"), Arg("path", output_image), Arg("flag", logging)>>

\* How a promise (or a call) ended.
Pending == [kind |-> "pending", error |-> "", value |-> <<>>]
Resolved(v) == [kind |-> "resolved", error |-> "", value |-> v]
Rejected(e) == [kind |-> "rejected", error |-> e, value |-> <<>>]
Thrown(e) == [kind |-> "thrown", error |-> e, value |-> <<>>]

\* How the child process of execFile ended, and the error execFile's promise
\* rejects with.
ProcessExits == {"exit0", "exitNonZero", "killed", "spawnFailed"}
StderrTexts == {"", "warning"}
ProcessError(exit) ==
    CASE exit = "exitNonZero" -> "ExitNonZero"
      [] exit = "killed" -> "Killed"
      [] exit = "spawnFailed" -> "SpawnFailed"

\* executeCommand with the catch block logging the error and not re-throwing it.
executeCommandSwallowed(exit, stdout, stderr) ==
    Resolved([stdout |-> stdout, stderr |-> stderr])

\* executeCommand treating text on stderr as a failure.
executeCommandStderrFails(exit, stdout, stderr) ==
    IF exit = "exit0" /\ stderr = ""
    THEN Resolved([stdout |-> stdout, stderr |-> stderr])
    ELSE Rejected(IF exit = "exit0" THEN "StderrOutput" ELSE ProcessError(exit))

\* executeCommand(): { stdout, stderr } when execFile's promise resolves (the
\* text on stderr is only logged), the caught error re-thrown when it rejects.
executeCommand(exit, stdout, stderr) ==
    IF exit = "exit0"
    THEN Resolved([stdout |-> stdout, stderr |-> stderr])
    ELSE Rejected(ProcessError(exit))

\* What a wrapper does before it returns: the arguments and the binary it
\* hands to executeCommand, or the locator's throw, which nothing catches.
Spawn(binary, args) == [kind |-> "spawn", error |-> "", value |-> args, binary |-> binary]
Launch(located, args) ==
    IF located.threw
    THEN [kind |-> "thrown", error |-> located.error, value |-> <<>>, binary |-> <<>>]
    ELSE Spawn(located.value, args)

cwebp(key, input_image, output_image, option, logging) ==
    Launch(getCwebpPath(key), cwebpArgs(input_image, output_image, option, logging))

dwebp(key, input_image, output_image, option, logging) ==
    Launch(getDwebpPath(key), dwebpArgs(input_image, output_image, option, logging))

gwebp(key, input_image, output_image, option, logging) ==
    Launch(getGwebpPath(key), cwebpArgs(input_image, output_image, option, logging))

webpmux_strip(key, input_image, output_image, metadata_type, logging) ==
    Launch(getWebpmuxPath(key),
           webpmuxStripArgs(input_image, output_image, metadata_type, logging))

----------------------------------------------------------------------------
(* State *)

PipelineOps == {"buffer2webp", "base64str2webp"}
PathOps == {"cwebp", "dwebp", "gwebp", "webpmux_strip"}

NoPath == [dir |-> "", name |-> <<0, "">>]
UserInput == [dir |-> ".", name |-> <<0, "jpg">>]
UserOutput == [dir |-> ".", name |-> <<0, "out">>]

\* One step a call has taken, kept as its history.
Ev(step, ok, error, note, stderr) ==
    [step |-> step, ok |-> ok, error |-> error, note |-> note, stderr |-> stderr]

IdleCall ==
    [op |-> "none", pc |-> "idle", input |-> <<>>, inputBuffer |-> <<>>,
     imageType |-> "", option |-> <<>>, extra_path |-> Undefined,
     filename |-> 0, tempDir |-> "", inputFilePath |-> NoPath,
     outputFilePath |-> NoPath, args |-> <<>>, primary |-> Pending,
     result |-> Pending, trace |-> <<>>]

Put(fs, p, bytes) == [q \in DOMAIN fs \cup {p} |-> IF q = p THEN bytes ELSE fs[q]]
Remove(fs, p) == [q \in DOMAIN fs \ {p} |-> fs[q]]
Exists(p) == p \in DOMAIN files

Init ==
    /\ platformKey \in PlatformKeys
    /\ dirs = {"."}
    /\ files = (UserInput :> <<1>>)
    /\ uuidCount = 0
    /\ calls = [c \in Calls |-> IdleCall]

Step(c, r, ev) == calls' = [calls EXCEPT ![c] = [r EXCEPT !.trace = Append(@, ev)]]

\* What the exported function's promise settles with, given how
\* convertToWebpBuffer ended: base64str2webp encodes the bytes.
Settled(op, outcome) ==
    IF op = "base64str2webp" /\ outcome.kind = "resolved"
    THEN Resolved(ToBase64(outcome.value))
    ELSE outcome

----------------------------------------------------------------------------
(* The buffer conversion pipeline: convertToWebpBuffer *)

\* Lines 22-31: name the files, resolve the directory, start the write.
convertToWebpBuffer(c, op, input, inputBuffer, imageType, option, extra_path, allowed) ==
    LET filename == uuid(uuidCount)
        target == targetPath(extra_path)
        existed == target \in dirs
        made == mkdirSync(existed, allowed)
        tempDir == getTempPath(extra_path, existed, allowed)
        r == [calls[c] EXCEPT !.op = op, !.input = input, !.inputBuffer = inputBuffer,
                              !.imageType = imageType, !.option = option,
                              !.extra_path = extra_path, !.filename = filename]
        note == IF existed THEN "existed" ELSE "absent"
    IN /\ calls[c].pc = "idle"
       /\ \A d \in 1..(c - 1) : calls[d].pc # "idle"
       /\ uuidCount' = uuidCount + 1
       /\ dirs' = IF made THEN dirs \cup {target} ELSE dirs
       /\ UNCHANGED <<platformKey, files>>
       /\ IF tempDir.threw
          THEN Step(c, [r EXCEPT !.pc = "done", !.result = Rejected(tempDir.error)],
                    Ev("mkdir", FALSE, tempDir.error, note, ""))
          ELSE Step(c, [r EXCEPT !.pc = "writeFile", !.tempDir = tempDir.value,
                          !.inputFilePath = TempFile(tempDir.value, filename, imageType),
                          !.outputFilePath = TempFile(tempDir.value, filename, "webp")],
                    Ev("mkdir", made, "", note, ""))

\* buffer2webp(buffer, image_type, option, extra_path)
buffer2webp(c, buffer, image_type, option, extra_path, allowed) ==
    convertToWebpBuffer(c, "buffer2webp", buffer, buffer, image_type, option,
                        extra_path, allowed)

\* base64str2webp(base64str, image_type, option, extra_path): line 76 decodes,
\* line 79 enters the pipeline.
base64str2webp(c, base64str, image_type, option, extra_path, allowed) ==
    convertToWebpBuffer(c, "base64str2webp", base64str, BufferFromBase64(base64str),
                        image_type, option, extra_path, allowed)

\* A caller invokes an export with a request drawn from In.
Buffer2webp(c, In) ==
    /\ calls[c].pc = "idle"
    /\ \E q \in In.requests, allowed \in BOOLEAN :
          /\ q.op = "buffer2webp"
          /\ buffer2webp(c, q.input, q.image_type, q.option, q.extra_path, allowed)

Base64str2webp(c, In) ==
    /\ calls[c].pc = "idle"
    /\ \E q \in In.requests, allowed \in BOOLEAN :
          /\ q.op = "base64str2webp"
          /\ base64str2webp(c, q.input, q.image_type, q.option, q.extra_path, allowed)

\* Line 31 completes; on success line 34 calls cwebp, whose throw the catch
\* of line 41 takes.  A failed write may leave a truncated file behind.
WriteFileDone(c, ok, partial) ==
    LET r == calls[c]
        run == cwebp(platformKey, r.inputFilePath, r.outputFilePath, r.option, "-quiet")
    IN /\ r.pc = "writeFile"
       /\ ok => (r.tempDir \in dirs /\ ~partial)
       /\ partial => r.tempDir \in dirs
       /\ files' = IF ok THEN Put(files, r.inputFilePath, r.inputBuffer)
                   ELSE IF partial THEN Put(files, r.inputFilePath, <<>>)
                   ELSE files
       /\ UNCHANGED <<platformKey, dirs, uuidCount>>
       /\ IF ~ok
          THEN Step(c, [r EXCEPT !.pc = "rmInput", !.primary = Rejected("TempWriteError")],
                    Ev("write", FALSE, "TempWriteError", "", ""))
          ELSE IF run.kind = "thrown"
          THEN calls' = [calls EXCEPT ![c] =
                   [r EXCEPT !.pc = "rmInput", !.primary = Rejected(run.error),
                             !.trace = @ \o <<Ev("write", TRUE, "", "", ""),
                                              Ev("tool", FALSE, run.error, "notSpawned", "")>>]]
          ELSE Step(c, [r EXCEPT !.pc = "execFile", !.args = run.value],
                    Ev("write", TRUE, "", "", ""))

\* The child process ends.  The tool is opaque: it may or may not have left
\* its output file, whatever it reports.
ExecFileDone(c, exit, stderr, produced, out) ==
    LET r == calls[c]
        res == executeCommand(exit, "", stderr)
        ev == Ev("tool", res.kind = "resolved", res.error, exit, stderr)
    IN /\ r.pc = "execFile"
       /\ produced => exit # "spawnFailed"
       /\ files' = IF produced THEN Put(files, r.outputFilePath, out) ELSE files
       /\ UNCHANGED <<platformKey, dirs, uuidCount>>
       /\ IF r.op \in PathOps
          THEN Step(c, [r EXCEPT !.pc = "done", !.result = res], ev)
          ELSE IF res.kind = "resolved"
          THEN Step(c, [r EXCEPT !.pc = "readFile"], ev)
          ELSE Step(c, [r EXCEPT !.pc = "rmInput", !.primary = res], ev)

\* Line 37 completes.
ReadFileDone(c, ok) ==
    LET r == calls[c]
        error == IF Exists(r.outputFilePath) THEN "TempReadError" ELSE "TempReadMissing"
    IN /\ r.pc = "readFile"
       /\ ok => Exists(r.outputFilePath)
       /\ UNCHANGED <<platformKey, dirs, files, uuidCount>>
       /\ IF ok
          THEN Step(c, [r EXCEPT !.pc = "rmInput",
                                 !.primary = Resolved(files[r.outputFilePath])],
                    Ev("read", TRUE, "", "", ""))
          ELSE Step(c, [r EXCEPT !.pc = "rmInput", !.primary = Rejected(error)],
                    Ev("read", FALSE, error, "", ""))

\* Line 48 completes: a rejection of fs.rm leaves the finally block at once
\* and becomes the outcome of the call.
RmInputDone(c, ok) ==
    LET r == calls[c]
    IN /\ r.pc = "rmInput"
       /\ files' = IF ok THEN Remove(files, r.inputFilePath) ELSE files
       /\ UNCHANGED <<platformKey, dirs, uuidCount>>
       /\ IF ok
          THEN Step(c, [r EXCEPT !.pc = "rmOutput"], Ev("rmInput", TRUE, "", "", ""))
          ELSE Step(c, [r EXCEPT !.pc = "done",
                                 !.result = Settled(r.op, Rejected("RemoveError"))],
                    Ev("rmInput", FALSE, "RemoveError", "", ""))

\* Line 49 completes; the outcome of the try block is delivered.
RmOutputDone(c, ok) ==
    LET r == calls[c]
    IN /\ r.pc = "rmOutput"
       /\ files' = IF ok THEN Remove(files, r.outputFilePath) ELSE files
       /\ UNCHANGED <<platformKey, dirs, uuidCount>>
       /\ IF ok
          THEN Step(c, [r EXCEPT !.pc = "done", !.result = Settled(r.op, r.primary)],
                    Ev("rmOutput", TRUE, "", "", ""))
          ELSE Step(c, [r EXCEPT !.pc = "done",
                                 !.result = Settled(r.op, Rejected("RemoveError"))],
                    Ev("rmOutput", FALSE, "RemoveError", "", ""))

----------------------------------------------------------------------------
(* The path-based functions, called with the caller's own paths *)

\* A path-based wrapper that resolves the temp directory as the buffer
\* functions do.
PathCallWithTempDir(c, op, option, run) ==
    LET r == [calls[c] EXCEPT !.op = op, !.option = option,
                              !.inputFilePath = UserInput,
                              !.outputFilePath = UserOutput]
    IN /\ calls[c].pc = "idle"
       /\ dirs' = dirs \cup {targetPath(Undefined)}
       /\ UNCHANGED <<platformKey, files, uuidCount>>
       /\ IF run.kind = "thrown"
          THEN Step(c, [r EXCEPT !.pc = "done", !.result = Thrown(run.error)],
                    Ev("tool", FALSE, run.error, "notSpawned", ""))
          ELSE calls' = [calls EXCEPT ![c] = [r EXCEPT !.pc = "execFile", !.args = run.value]]

\* cwebp, dwebp, gwebp, webpmux_strip: build the arguments, locate the
\* binary, hand both to executeCommand.  No file system call of their own.
PathCall(c, op, option, run) ==
    LET r == [calls[c] EXCEPT !.op = op, !.option = option,
                              !.inputFilePath = UserInput,
                              !.outputFilePath = UserOutput]
    IN /\ calls[c].pc = "idle"
       /\ UNCHANGED <<platformKey, dirs, files, uuidCount>>
       /\ IF run.kind = "thrown"
          THEN Step(c, [r EXCEPT !.pc = "done", !.result = Thrown(run.error)],
                    Ev("tool", FALSE, run.error, "notSpawned", ""))
          ELSE calls' = [calls EXCEPT ![c] = [r EXCEPT !.pc = "execFile", !.args = run.value]]

Cwebp(c, In) ==
    /\ calls[c].pc = "idle"
    /\ \E o \in In.options :
          PathCall(c, "cwebp", o, cwebp(platformKey, UserInput, UserOutput, o, "-quiet"))

Dwebp(c, In) ==
    /\ calls[c].pc = "idle"
    /\ \E o \in In.options :
          PathCall(c, "dwebp", o, dwebp(platformKey, UserInput, UserOutput, o, "-quiet"))

Gwebp(c, In) ==
    /\ calls[c].pc = "idle"
    /\ \E o \in In.options :
          PathCall(c, "gwebp", o, gwebp(platformKey, UserInput, UserOutput, o, "-quiet"))

WebpmuxStrip(c) ==
    /\ calls[c].pc = "idle"
    /\ PathCall(c, "webpmux_strip", <<>>,
                webpmux_strip(platformKey, UserInput, UserOutput, "icc", "-quiet"))

----------------------------------------------------------------------------
(* Specifications *)

\* The requests and the environment's answers a run draws from.
Request(op, input, image_type, option, extra_path) ==
    [op |-> op, input |-> input, image_type |-> image_type, option |-> option,
     extra_path |-> extra_path]

AllRequests ==
    [requests |->
        {Request("buffer2webp", b, t, o, x) :
            b \in Buffers, t \in ImageTypes, o \in Options, x \in ExtraPaths}
        \cup
        {Request("base64str2webp", s, t, o, x) :
            s \in Base64Strings, t \in ImageTypes, o \in Options, x \in ExtraPaths},
     options |-> Options, exits |-> ProcessExits, stderrs |-> StderrTexts]

SampleRequests ==
    [requests |->
        {Request("buffer2webp", <<255>>, "png", <<"q">>, Undefined),
         Request("base64str2webp", <<0, 0>>, "webp", <<"q">>, "/custom")},
     options |-> {<<"q">>}, exits |-> {"exit0", "exitNonZero"}, stderrs |-> {""}]

PipelineSteps(c, In) ==
    \/ \E ok \in BOOLEAN, partial \in BOOLEAN : WriteFileDone(c, ok, partial)
    \/ \E exit \in In.exits, stderr \in In.stderrs, produced \in BOOLEAN,
          out \in ToolOutputs : ExecFileDone(c, exit, stderr, produced, out)
    \/ \E ok \in BOOLEAN : ReadFileDone(c, ok)
    \/ \E ok \in BOOLEAN : RmInputDone(c, ok)
    \/ \E ok \in BOOLEAN : RmOutputDone(c, ok)

PipelineNext(c, In) ==
    \/ Buffer2webp(c, In)
    \/ Base64str2webp(c, In)
    \/ PipelineSteps(c, In)

PathNext(c, In) ==
    \/ Cwebp(c, In)
    \/ Dwebp(c, In)
    \/ Gwebp(c, In)
    \/ WebpmuxStrip(c)

\* One call of any exported function, over every request within the bounds.
Next == PipelineNext(1, AllRequests) \/ PathNext(1, AllRequests)
Spec == Init /\ [][Next]_vars

\* Buffer and base64 conversions issued at any time, overlapping or one
\* after the other, over a sample of requests.
NextConcurrent == \E c \in Calls : PipelineNext(c, SampleRequests)
SpecConcurrent == Init /\ [][NextConcurrent]_vars

\* The same calls when every awaited operation completes: the event loop
\* runs the continuation of each file system call and child process that has
\* ended, successfully or not.
Fairness == \A c \in Calls : WF_vars(PipelineSteps(c, SampleRequests))
SpecFair == Init /\ [][NextConcurrent]_vars /\ Fairness

----------------------------------------------------------------------------
(* Properties *)

IsPipeline(c) == calls[c].op \in PipelineOps
IsDone(c) == calls[c].pc = "done"
Events(c, step) == {i \in 1..Len(calls[c].trace) : calls[c].trace[i].step = step}
Has(c, step) == Events(c, step) # {}
Failed(c, step) == \E i \in Events(c, step) : ~calls[c].trace[i].ok
Succeeded(c, step) == \E i \in Events(c, step) : calls[c].trace[i].ok
\* The call got past getTempPath and owns a pair of temp paths.
HasTempPaths(c) == IsPipeline(c) /\ Succeeded(c, "mkdir")
TempPaths(c) ==
    IF HasTempPaths(c) THEN {calls[c].inputFilePath, calls[c].outputFilePath} ELSE {}

\* The removal of path p by call c was refused by the file system.
RemovalFailed(c, p) ==
    \/ p = calls[c].inputFilePath /\ Failed(c, "rmInput")
    \/ p = calls[c].outputFilePath /\ Failed(c, "rmOutput")

\* C1: when a buffer/base64 conversion call settles, whether its write, tool
\* or read step succeeded or failed, neither its input temp path nor its
\* output temp path exists on disk.  Stated for every path whose own removal
\* the file system did not refuse, so that a violation is a file the call
\* could have removed and did not.
C1_CleanupInvariant ==
    \A c \in Calls :
        (IsDone(c) /\ HasTempPaths(c)) =>
            \A p \in TempPaths(c) : ~RemovalFailed(c, p) => ~Exists(p)

\* C2: a failing removal never changes the outcome of convertToWebpBuffer:
\* the call settles with the outcome of its write, tool and read steps, the
\* removal error is not what the caller receives, and both removals are
\* attempted.
C2_CleanupNeverChangesOutcome ==
    \A c \in Calls :
        (IsDone(c) /\ HasTempPaths(c)) =>
            /\ calls[c].result = Settled(calls[c].op, calls[c].primary)
            /\ calls[c].result.error # "RemoveError"
            /\ Has(c, "rmInput") /\ Has(c, "rmOutput")

\* C3: a buffer conversion call that fails at its write, tool or read step
\* rejects with the error of the first of these steps that failed; a tool
\* that reports success without leaving its output file gives the read
\* error, not a tool error.
C3_FirstErrorSurfaced ==
    \A c \in Calls :
        (IsDone(c) /\ IsPipeline(c)) =>
            \A i \in 1..Len(calls[c].trace) :
                LET e == calls[c].trace[i]
                IN (e.step \in {"write", "tool", "read"} /\ ~e.ok
                    /\ \A j \in 1..(i - 1) : calls[c].trace[j].ok)
                   => calls[c].result = Rejected(e.error)

\* C4: calls in flight together in the same temp directory never share an
\* input or output temp path: the path pairs of two calls are disjoint,
\* every temp file on disk lies on the path of exactly one call, and an
\* input file holds what its own call wrote.
C4_NonCollision ==
    /\ \A c, d \in Calls : c # d => TempPaths(c) \cap TempPaths(d) = {}
    /\ \A p \in DOMAIN files :
          p.dir # "." => \E c \in Calls : p \in TempPaths(c)
    /\ \A c \in Calls :
          (HasTempPaths(c) /\ calls[c].inputFilePath # calls[c].outputFilePath
           /\ Exists(calls[c].inputFilePath))
          => files[calls[c].inputFilePath] \in {calls[c].inputBuffer, <<>>}

\* Two calls in flight in one directory, each with its input file on disk.
C4_Witness ==
    \E c, d \in Calls :
        /\ c # d
        /\ calls[c].pc \in {"execFile", "readFile", "rmInput"}
        /\ calls[d].pc \in {"execFile", "readFile", "rmInput"}
        /\ calls[c].tempDir = calls[d].tempDir
        /\ Exists(calls[c].inputFilePath) /\ Exists(calls[d].inputFilePath)

\* C5: on a platform key the binary table lacks, a buffer/base64 conversion
\* call fails with the unsupported-platform error before any file is
\* written: its input temp file is never written.
C5_UnsupportedBeforeAnyWrite ==
    platformKey \notin DOMAIN platformConfig =>
        \A c \in Calls :
            HasTempPaths(c) =>
                /\ ~Succeeded(c, "write")
                /\ IsDone(c) => calls[c].result = Rejected("UnsupportedPlatform")

\* A base64 text as RFC 4648 has it: whole groups of four characters of the
\* alphabet, the last group padded with at most two '='.
WellFormedBase64(s) ==
    /\ Len(s) % 4 = 0
    /\ \A i \in 1..Len(s) :
          \/ s[i] < 64
          \/ s[i] = Pad /\ i >= Len(s) - 1 /\ \A j \in (i + 1)..Len(s) : s[j] = Pad

\* C6: base64str2webp called with a malformed base64 string rejects with a
\* decode error, and the call writes no file and invokes no tool.
C6_BadBase64Rejected ==
    \A c \in Calls :
        (calls[c].op = "base64str2webp" /\ ~WellFormedBase64(calls[c].input)) =>
            /\ ~Succeeded(c, "write") /\ ~Has(c, "tool")
            /\ (IsDone(c) /\ ~Failed(c, "mkdir")) =>
                  calls[c].result = Rejected("DecodeError")

\* C7: every failure of a public conversion operation, an unsupported
\* platform found while resolving the binary path included, is a rejection
\* of the returned promise and never an exception thrown at the call site.
C7_FailuresAreRejections ==
    \A c \in Calls : calls[c].result.kind # "thrown"

\* C8: executeCommand resolves with { stdout, stderr }, stderr text and all,
\* exactly when the process exits normally, and otherwise rejects with the
\* error of the process.
C8_StderrIsNotFailure ==
    \A c \in Calls :
        \A i \in Events(c, "tool") :
            LET e == calls[c].trace[i]
            IN e.note # "notSpawned" =>
                  /\ e.ok <=> e.note = "exit0"
                  /\ ~e.ok => e.error = ProcessError(e.note)
                  /\ (calls[c].op \in PathOps /\ e.ok) =>
                        calls[c].result = Resolved([stdout |-> "", stderr |-> e.stderr])
                  /\ (calls[c].op \in PathOps /\ ~e.ok) =>
                        calls[c].result = Rejected(ProcessError(e.note))

\* A path-based call resolved although the tool wrote to stderr.
C8_Witness ==
    \E c \in Calls :
        /\ calls[c].op \in PathOps /\ IsDone(c)
        /\ calls[c].result.kind = "resolved"
        /\ calls[c].result.value.stderr = "warning"

PathConversions == {"cwebp", "dwebp", "gwebp"}

\* The non-empty whitespace-separated tokens of a string, in order.
RECURSIVE WhitespaceTokens(_)
WhitespaceTokens(s) ==
    IF s = <<>> THEN <<>>
    ELSE IF Head(s) = " " THEN WhitespaceTokens(Tail(s))
    ELSE LET n == CHOOSE k \in 1..Len(s) :
                      /\ \A i \in 1..k : s[i] # " "
                      /\ k = Len(s) \/ s[k + 1] = " "
         IN <<SubSeq(s, 1, n)>> \o WhitespaceTokens(SubSeq(s, n + 1, Len(s)))

IsOptionArg(a) == a.kind = "option"

\* C11: for every options string, the empty string and strings with leading,
\* trailing or repeated spaces included, the option arguments cwebp, dwebp
\* and gwebp pass to the external tool are exactly the non-empty
\* whitespace-separated tokens of the string, in order; no empty-string
\* argument is ever passed.
C11_OptionsTokenized ==
    \A c \in Calls :
        (calls[c].op \in PathConversions /\ calls[c].args # <<>>) =>
            /\ SelectSeq(calls[c].args, IsOptionArg)
                  = OptionArgs(WhitespaceTokens(calls[c].option))
            /\ \A i \in 1..Len(calls[c].args) :
                  IsOptionArg(calls[c].args[i]) => calls[c].args[i].v # <<>>

IsPathArg(a) == a.kind = "path"

\* C12: a step of a cwebp, dwebp or gwebp call neither resolves nor creates
\* the temp directory and itself creates, reads or removes no file: the call
\* holds no temp path, the only thing it does is run the external tool once
\* on the caller's input and output paths, the only file that may change is
\* the one the tool writes at the caller's output path, and no path is
\* removed, whether the call succeeds or fails.
C12_PathCallsNoTempLifecycle ==
    [][\A c \in Calls :
          (calls'[c] # calls[c] /\ calls'[c].op \in PathConversions) =>
              LET r == calls'[c]
              IN /\ dirs' = dirs /\ uuidCount' = uuidCount
                 /\ r.tempDir = "" /\ r.filename = 0
                 /\ r.inputFilePath = UserInput /\ r.outputFilePath = UserOutput
                 /\ DOMAIN files \subseteq DOMAIN files'
                 /\ \A p \in DOMAIN files' \ {UserOutput} :
                       p \in DOMAIN files /\ files'[p] = files[p]
                 /\ files' # files => calls[c].pc = "execFile"
                 /\ Len(r.trace) <= 1
                 /\ \A i \in 1..Len(r.trace) : r.trace[i].step = "tool"
                 /\ r.args # <<>> =>
                       SelectSeq(r.args, IsPathArg)
                          = <<Arg("path", UserInput), Arg("path", UserOutput)>>
      ]_vars

\* A path-based conversion failed after the tool had written its output:
\* both of the caller's paths are still there.
C12_Witness ==
    \E c \in Calls :
        /\ calls[c].op \in PathConversions /\ IsDone(c)
        /\ calls[c].result.kind = "rejected"
        /\ Exists(UserInput) /\ Exists(UserOutput)

Issued(c) == IsPipeline(c) /\ calls[c].pc # "idle"
HasResult(c) == IsDone(c) /\ calls[c].result.kind \in {"resolved", "rejected"}

\* Every issued buffer/base64 conversion call eventually settles.
EveryCallSettles == \A c \in Calls : Issued(c) ~> HasResult(c)

\* C13: when every file system operation completes and the external process
\* exits, every buffer/base64 conversion call eventually settles with the
\* output bytes or an error, and by then both removals of its temp files
\* have been attempted.
C13_Termination ==
    \A c \in Calls :
        Issued(c) ~>
            /\ HasResult(c)
            /\ HasTempPaths(c) => (Has(c, "rmInput") /\ Has(c, "rmOutput"))

WorkSteps == {"write", "tool", "read"}
RemovalSteps == {"rmInput", "rmOutput"}
\* The external tool was started by call c and ended as `exit`.
ToolEnded(c, i, exit) ==
    calls[c].trace[i].step = "tool" /\ calls[c].trace[i].note = exit
ToolFailed(c) ==
    \E i \in Events(c, "tool") : ~ToolEnded(c, i, "exit0")

\* C14: within one buffer conversion call no step is taken twice and the
\* tool is invoked at most once, only after the input temp file was written;
\* the output temp file is read only after the tool exited normally; the
\* removals start only after the write, tool and read steps have finished
\* or one of them has failed, and none of these steps follows a removal.  A
\* failed write means the tool is never invoked, a failed tool that the
\* output is never read.
C14_StepOrdering ==
    \A c \in Calls :
        IsPipeline(c) =>
            LET t == calls[c].trace
                pc == calls[c].pc
            IN /\ \A s \in WorkSteps \cup RemovalSteps : Cardinality(Events(c, s)) <= 1
               /\ pc = "execFile" => (Succeeded(c, "write") /\ ~Has(c, "tool"))
               /\ \A i \in Events(c, "tool") :
                     \E j \in Events(c, "write") : j < i /\ t[j].ok
               /\ pc = "readFile" => ~Has(c, "read")
               /\ (pc = "readFile" \/ Has(c, "read")) =>
                     \E j \in Events(c, "tool") : ToolEnded(c, j, "exit0")
               /\ \A i \in Events(c, "read") :
                     \E j \in Events(c, "tool") : j < i
               /\ (pc \in {"rmInput", "rmOutput"} \/ \E s \in RemovalSteps : Has(c, s)) =>
                     (Has(c, "read") \/ Failed(c, "write") \/ ToolFailed(c))
               /\ \A i \in 1..Len(t), j \in 1..Len(t) :
                     (t[i].step \in RemovalSteps /\ t[j].step \in WorkSteps) => j < i
               /\ Failed(c, "write") => (~Has(c, "tool") /\ pc # "execFile")
               /\ ToolFailed(c) => (~Has(c, "read") /\ pc # "readFile")

\* A call went through every step once and in order.
C14_Witness ==
    \E c \in Calls :
        /\ IsPipeline(c) /\ IsDone(c)
        /\ Len(calls[c].trace) = 6
        /\ \A i \in 1..6 :
              /\ calls[c].trace[i].ok
              /\ calls[c].trace[i].step
                    = <<"mkdir", "write", "tool", "read", "rmInput", "rmOutput">>[i]

\* C15: within one buffer/base64 conversion call the input temp path and the
\* output temp path are two distinct paths for every source format tag, the
\* tag "webp" included, so the tool never reads from and writes to the same
\* temp file.
C15_DistinctTempPaths ==
    \A c \in Calls :
        HasTempPaths(c) =>
            /\ calls[c].inputFilePath # calls[c].outputFilePath
            /\ \A i \in 1..Len(calls[c].args), j \in 1..Len(calls[c].args) :
                  (i < j /\ IsPathArg(calls[c].args[i]) /\ IsPathArg(calls[c].args[j]))
                  => calls[c].args[i].v # calls[c].args[j].v

====
